---- MODULE Spec2Model ----
(***************************************************************************)
(* Model of the puebi package (src/puebi/puebi.go): the text sanitizer     *)
(* SanitizeToPUEBI, its stages, and IsSentenceCapitalized.                 *)
(*                                                                         *)
(* A text is a sequence of code points; a code point is a one-character    *)
(* string, or the name "U+XXXX" of a code point outside ASCII.  Offsets    *)
(* into a text are 0-based and spans are half-open [start, end), as in the *)
(* source; Sub(s, a, b) is the Go slice s[a:b] and At(s, k) is s[k].       *)
(***************************************************************************)
EXTENDS Integers, Sequences, FiniteSets, TLC

VARIABLES
    op,     \* the exported operation under execution
    in,     \* its argument
    s,      \* the local variable s of the operation (the text so far)
    pc,     \* the position in the operation's body
    i,      \* decapitalizeMidSentence: scan position of the outer loop
    out,    \* decapitalizeMidSentence: the output built so far
    ok,     \* the boolean result of IsSentenceCapitalized
    capped, \* history: the text capitalizeSentences returned in this call
    again   \* the caller has passed a result of SanitizeToPUEBI back to it

vars == <<op, in, s, pc, i, out, ok, capped, again>>

(***************************************************************************)
(* Code points and the predicates of package unicode and of RE2 classes.   *)
(***************************************************************************)
LowerLetters ==
    <<"a", "b", "c", "d", "e", "f", "g", "h", "i", "j", "k", "l", "m",
      "n", "o", "p", "q", "r", "s", "t", "u", "v", "w", "x", "y", "z">>

UpperLetters ==
    <<"A", "B", "C", "D", "E", "F", "G", "H", "I", "J", "K", "L", "M",
      "N", "O", "P", "Q", "R", "S", "T", "U", "V", "W", "X", "Y", "Z">>

AsciiLower == {LowerLetters[k] : k \in 1..Len(LowerLetters)}
AsciiUpper == {UpperLetters[k] : k \in 1..Len(UpperLetters)}

\* e-acute, small and capital: letters outside ASCII; and U+03D2 (Greek
\* upsilon with hook), an uppercase letter for which unicode.ToLower has no
\* mapping
LowerSet == AsciiLower \cup {"U+00E9"}
UpperSet == AsciiUpper \cup {"U+00C9", "U+03D2"}

Digits == {"0", "1", "2", "3", "4", "5", "6", "7", "8", "9"}

\* RE2's \s is [\t\n\f\r ]
ReSpace == {" ", "\t", "\n", "\f", "\r"}

\* unicode.IsSpace: also vertical tab, NEL and no-break space, among others
UniSpace == ReSpace \cup {"U+000B", "U+0085", "U+00A0"}

IsLetter(c) == c \in LowerSet \/ c \in UpperSet
IsUpper(c) == c \in UpperSet
IsLower(c) == c \in LowerSet
IsDigit(c) == c \in Digits
IsReSpace(c) == c \in ReSpace
IsSpace(c) == c \in UniSpace

\* RE2's \w is [0-9A-Za-z_]: ASCII only
IsWordChar(c) == c \in AsciiLower \/ c \in AsciiUpper \/ c \in Digits \/ c = "_"

ToLowerMap ==
    [c \in UpperSet |->
        IF c = "U+00C9" THEN "U+00E9"
        ELSE IF c = "U+03D2" THEN c
        ELSE LowerLetters[CHOOSE k \in 1..Len(UpperLetters) : UpperLetters[k] = c]]

ToUpperMap ==
    [c \in LowerSet |->
        IF c = "U+00E9" THEN "U+00C9"
        ELSE UpperLetters[CHOOSE k \in 1..Len(LowerLetters) : LowerLetters[k] = c]]

ToLower(c) == IF c \in UpperSet THEN ToLowerMap[c] ELSE c
ToUpper(c) == IF c \in LowerSet THEN ToUpperMap[c] ELSE c

(***************************************************************************)
(* Slices.                                                                 *)
(***************************************************************************)
At(t, k) == t[k + 1]
Sub(t, a, b) == SubSeq(t, a + 1, b)
LowerAll(t) == [k \in 1..Len(t) |-> ToLower(t[k])]

(***************************************************************************)
(* The fixed word lists.                                                   *)
(***************************************************************************)
protectedHeads ==
    { <<"J", "a", "l", "a", "n">>,
      <<"G", "u", "n", "u", "n", "g">>,
      <<"S", "u", "n", "g", "a", "i">>,
      <<"D", "a", "n", "a", "u">>,
      <<"K", "o", "t", "a">>,
      <<"P", "r", "o", "v", "i", "n", "s", "i">>,
      <<"U", "n", "i", "v", "e", "r", "s", "i", "t", "a", "s">>,
      <<"I", "n", "s", "t", "i", "t", "u", "t">>,
      <<"S", "e", "k", "o", "l", "a", "h">>,
      <<"R", "u", "m", "a", "h">>,
      <<"B", "a", "n", "k">>,
      <<"P", "T">>,
      <<"C", "V">>,
      <<"R", "S">>,
      <<"H", "a", "i">> }

defaultExceptions ==
    { <<"I", "n", "d", "o", "n", "e", "s", "i", "a">>,
      <<"J", "a", "k", "a", "r", "t", "a">>,
      <<"S", "a", "h", "a", "b", "a", "t">>,
      <<"S", "a", "m", "p", "o", "e", "r", "n", "a">>,
      <<"C", "a", "l", "l">>,
      <<"C", "e", "n", "t", "e", "r">>,
      <<"A", "T", "M">>,
      <<"K", "T", "P">>,
      <<"B", "I">>,
      <<"B", "N", "I">>,
      <<"B", "C", "A">> }

(***************************************************************************)
(* decapitalizeMidSentence: the closures, the tokenizer, the rewrite of    *)
(* one sentence and one iteration of the outer loop.                       *)
(***************************************************************************)
isSentenceEnd(r) == r = "." \/ r = "!" \/ r = "?"

\* isAllCaps asking for two letters at least
isAllCapsAcronym(runes) ==
    /\ \E k, l \in 1..Len(runes) : k # l /\ IsLetter(runes[k]) /\ IsLetter(runes[l])
    /\ \A k \in 1..Len(runes) : IsLetter(runes[k]) => IsUpper(runes[k])

isAllCaps(runes) ==
    /\ \E k \in 1..Len(runes) : IsLetter(runes[k])
    /\ \A k \in 1..Len(runes) : IsLetter(runes[k]) => IsUpper(runes[k])

isTitleCase(runes) ==
    /\ Len(runes) # 0
    /\ IsUpper(runes[1])
    /\ \A k \in 2..Len(runes) : IsLetter(runes[k]) => IsLower(runes[k])

\* the inner loop "for j < n && !isSentenceEnd(rs[j])": the end of the sentence
\* that starts at i
RECURSIVE SentenceEnd(_, _)
SentenceEnd(rs, j) ==
    IF j < Len(rs) /\ ~isSentenceEnd(At(rs, j)) THEN SentenceEnd(rs, j + 1) ELSE j

RECURSIVE SkipNonLetters(_, _)
SkipNonLetters(kal, k) ==
    IF k < Len(kal) /\ ~IsLetter(At(kal, k)) THEN SkipNonLetters(kal, k + 1) ELSE k

RECURSIVE SkipLetters(_, _)
SkipLetters(kal, k) ==
    IF k < Len(kal) /\ IsLetter(At(kal, k)) THEN SkipLetters(kal, k + 1) ELSE k

\* the tokenizer loop "for k < len(kal)": the word spans of a sentence from k on
\* (start and end of one pass are bound by \in, so that each is evaluated once)
RECURSIVE WordsFrom(_, _)
WordsFrom(kal, k) ==
    IF k < Len(kal)
    THEN CHOOSE ws \in
             { IF end > start
               THEN <<[start |-> start, end |-> end]>> \o WordsFrom(kal, end)
               ELSE WordsFrom(kal, end) :
                   <<start, end>> \in
                       { <<st, SkipLetters(kal, st)>> : st \in {SkipNonLetters(kal, k)} } } : TRUE
    ELSE <<>>

words(kal) == WordsFrom(kal, 0)

\* the text of word wi (0-based) as kal holds it now
WordAt(kal, ws, wi) == Sub(kal, ws[wi + 1].start, ws[wi + 1].end)

\* DecideWord without the "if wi == 0 { continue }"
DecideWordNoSkip(kal, ws, wi) ==
    LET wp == ws[wi + 1]
        wordRunes == Sub(kal, wp.start, wp.end)
    IN  IF isAllCaps(wordRunes) \/ wordRunes \in defaultExceptions THEN kal
        ELSE IF wi - 1 >= 0 /\ WordAt(kal, ws, wi - 1) \in protectedHeads THEN kal
        ELSE IF isTitleCase(wordRunes)
             THEN [t \in 1..Len(kal) |->
                      IF wp.start < t /\ t <= wp.end THEN ToLower(kal[t]) ELSE kal[t]]
             ELSE kal

\* DecideWord without the test isAllCaps(wordRunes)
DecideWordNoAcronym(kal, ws, wi) ==
    IF wi = 0 THEN kal
    ELSE LET wp == ws[wi + 1]
             wordRunes == Sub(kal, wp.start, wp.end)
         IN  IF wordRunes \in defaultExceptions THEN kal
             ELSE IF WordAt(kal, ws, wi - 1) \in protectedHeads THEN kal
             ELSE IF isTitleCase(wordRunes)
                  THEN [t \in 1..Len(kal) |->
                           IF wp.start < t /\ t <= wp.end THEN ToLower(kal[t]) ELSE kal[t]]
                  ELSE kal

\* DecideWord with a head that also protects the second word after it
DecideWordTransitive(kal, ws, wi) ==
    IF wi = 0 THEN kal
    ELSE LET wp == ws[wi + 1]
             wordRunes == Sub(kal, wp.start, wp.end)
             prev == WordAt(kal, ws, wi - 1)
         IN  IF isAllCaps(wordRunes) \/ wordRunes \in defaultExceptions THEN kal
             ELSE IF prev \in protectedHeads THEN kal
             ELSE IF wi - 2 >= 0 /\ WordAt(kal, ws, wi - 2) \in protectedHeads THEN kal
             ELSE IF isTitleCase(wordRunes)
                  THEN [t \in 1..Len(kal) |->
                           IF wp.start < t /\ t <= wp.end THEN ToLower(kal[t]) ELSE kal[t]]
                  ELSE kal

\* DecideWord with the test the source has commented out: a word is also
\* skipped when the word before it is TitleCase
DecideWordNeighbour(kal, ws, wi) ==
    IF wi = 0 THEN kal
    ELSE LET wp == ws[wi + 1]
             wordRunes == Sub(kal, wp.start, wp.end)
             prev == WordAt(kal, ws, wi - 1)
         IN  IF isAllCaps(wordRunes) \/ wordRunes \in defaultExceptions THEN kal
             ELSE IF isTitleCase(prev) \/ prev \in protectedHeads THEN kal
             ELSE IF isTitleCase(wordRunes)
                  THEN [t \in 1..Len(kal) |->
                           IF wp.start < t /\ t <= wp.end THEN ToLower(kal[t]) ELSE kal[t]]
                  ELSE kal

\* the body of the loop over wi: kal after word wi has been considered
DecideWord(kal, ws, wi) ==
    IF wi = 0 THEN kal
    ELSE LET wp == ws[wi + 1]
             wordRunes == Sub(kal, wp.start, wp.end)
             prev == WordAt(kal, ws, wi - 1)
         IN  IF isAllCaps(wordRunes) \/ wordRunes \in defaultExceptions THEN kal
             ELSE IF prev \in protectedHeads THEN kal
             ELSE IF isTitleCase(wordRunes)
                  THEN [t \in 1..Len(kal) |->
                           IF wp.start < t /\ t <= wp.end THEN ToLower(kal[t]) ELSE kal[t]]
                  ELSE kal

\* "for wi := 0; wi < len(words); wi++": kal is rewritten in place, word by word
\* (each rewritten kal is bound by v \in {..}, so that it is evaluated before
\* the next word is considered)
RECURSIVE LowerWords(_, _, _)
LowerWords(kal, ws, wi) ==
    IF wi < Len(ws)
    THEN CHOOSE res \in {LowerWords(v, ws, wi + 1) : v \in {DecideWord(kal, ws, wi)}} : TRUE
    ELSE kal

RECURSIVE SkipSpaces(_, _)
SkipSpaces(rs, j) ==
    IF j < Len(rs) /\ IsSpace(At(rs, j)) THEN SkipSpaces(rs, j + 1) ELSE j

\* AfterSentence that does not step over the terminal mark
AfterSentenceStay(rs, j) == SkipSpaces(rs, j)

\* the scan position after the terminal mark (if any) at j and the white space
\* that follows it
AfterSentence(rs, j) ==
    SkipSpaces(rs, IF j < Len(rs) /\ isSentenceEnd(At(rs, j)) THEN j + 1 ELSE j)

\* SentenceIter without the appends of the terminal mark and of the white
\* space after it
SentenceIterNoCopy(rs, i0) ==
    LET j == SentenceEnd(rs, i0)
        j2 == AfterSentence(rs, j)
    IN  CHOOSE it \in
            { [app |-> LowerWords(kal, ws, 0), next |-> j2] :
                  <<kal, ws>> \in { <<k, words(k)>> : k \in {Sub(rs, i0, j)} } } : TRUE

\* one iteration of the outer loop from scan position i0: the runes appended
\* to out and the next scan position
\* (kal and its word spans are bound by \in, so that each is evaluated once)
SentenceIter(rs, i0) ==
    LET j == SentenceEnd(rs, i0)
        j2 == AfterSentence(rs, j)
    IN  CHOOSE it \in
            { [app |-> LowerWords(kal, ws, 0) \o Sub(rs, j, j2), next |-> j2] :
                  <<kal, ws>> \in { <<k, words(k)>> : k \in {Sub(rs, i0, j)} } } : TRUE

RECURSIVE DecapFrom(_, _)
DecapFrom(rs, i0) ==
    IF i0 < Len(rs)
    THEN LET it == SentenceIter(rs, i0) IN it.app \o DecapFrom(rs, it.next)
    ELSE <<>>

decapitalizeMidSentence(t) == DecapFrom(t, 0)

(***************************************************************************)
(* regexp: ReplaceAllString.  Match(t, k) is the length of the match of    *)
(* the expression that starts at offset k (0 when there is none; no        *)
(* expression of the package matches the empty string) and Repl(t, k) the  *)
(* expanded replacement of that match.  Matches are taken leftmost first   *)
(* and do not overlap.                                                     *)
(***************************************************************************)
Has(t, k) == 0 <= k /\ k < Len(t)

\* the least offset j >= k with m[j] > 0, or -1
NextMatch(m, k, n) ==
    IF \E j \in k..(n - 1) : m[j] > 0
    THEN CHOOSE j \in k..(n - 1) : m[j] > 0 /\ \A j2 \in k..(j - 1) : m[j2] = 0
    ELSE -1

\* the text from offset k on with each match replaced: up to the next match
\* the text is copied, then the replacement, then the scan resumes after the match
RECURSIVE Rebuild(_, _, _, _)
Rebuild(t, k, m, r) ==
    LET j == NextMatch(m, k, Len(t))
    IN  IF j < 0 THEN Sub(t, k, Len(t))
        ELSE Sub(t, k, j) \o r[j] \o Rebuild(t, j + m[j], m, r)

\* (the text is bound by v \in {t} so that it is evaluated once, before the scan)
ReplaceAll(t, Match(_, _), Repl(_, _)) ==
    CHOOSE res \in
        { Rebuild(v, 0,
                  [k \in 0..(Len(v) - 1) |-> Match(v, k)],
                  [k \in 0..(Len(v) - 1) |-> Repl(v, k)])
          : v \in {t} } : TRUE

\* \b: an ASCII word character on exactly one side of offset k
WordBoundary(t, k) ==
    (Has(t, k - 1) /\ IsWordChar(At(t, k - 1))) # (Has(t, k) /\ IsWordChar(At(t, k)))

\* the end of the longest run of \s that starts at k
RECURSIVE ReSpaceEnd(_, _)
ReSpaceEnd(t, k) ==
    IF Has(t, k) /\ IsReSpace(At(t, k)) THEN ReSpaceEnd(t, k + 1) ELSE k

\* the end of the longest run of "." that starts at k
RECURSIVE DotsEnd(_, _)
DotsEnd(t, k) ==
    IF Has(t, k) /\ At(t, k) = "." THEN DotsEnd(t, k + 1) ELSE k

\* does text lit (compared without case when fold) stand at offset k
Stands(t, k, lit, fold) ==
    /\ k + Len(lit) <= Len(t)
    /\ IF fold THEN LowerAll(Sub(t, k, k + Len(lit))) = LowerAll(lit)
       ELSE Sub(t, k, k + Len(lit)) = lit

\* reMultiWS: \s+
reMultiWSMatch(t, k) == ReSpaceEnd(t, k) - k
reMultiWSRepl(t, k) == <<" ">>

\* \s+(C) for a class C of characters that are no white space, replaced by $1
SpaceBeforeMatch(t, k, class) ==
    LET e == ReSpaceEnd(t, k)
    IN  IF e > k /\ Has(t, e) /\ At(t, e) \in class THEN e - k + 1 ELSE 0
SpaceBeforeRepl(t, k) == <<At(t, ReSpaceEnd(t, k))>>

\* (C)\s+ replaced by $1
SpaceAfterMatch(t, k, class) ==
    IF At(t, k) \in class /\ ReSpaceEnd(t, k + 1) > k + 1
    THEN ReSpaceEnd(t, k + 1) - k ELSE 0

ClosingPunct == {",", ".", ";", ":", "!", "?"}

\* reSpaceBeforePunct: \s+([,.;:!?])
reSpaceBeforePunctMatch(t, k) == SpaceBeforeMatch(t, k, ClosingPunct)

\* reCommaSemiColonEtcSpace: ([,;:!?])([^\s\)])
reCommaSemiColonEtcSpaceMatch(t, k) ==
    IF /\ At(t, k) \in {",", ";", ":", "!", "?"}
       /\ Has(t, k + 1)
       /\ ~IsReSpace(At(t, k + 1)) /\ At(t, k + 1) # ")"
    THEN 2 ELSE 0
reCommaSemiColonEtcSpaceRepl(t, k) == <<At(t, k), " ", At(t, k + 1)>>

\* the class [^\d\s\).] that closes reDotSentenceSpace
AfterDot(t, k) ==
    /\ Has(t, k)
    /\ ~IsDigit(At(t, k)) /\ ~IsReSpace(At(t, k))
    /\ At(t, k) # ")" /\ At(t, k) # "."

\* reDotSentenceSpace: (^|[^\d])\.([^\d\s\).]); ^ is tried first
reDotSentenceSpaceMatch(t, k) ==
    IF k = 0 /\ At(t, 0) = "." /\ AfterDot(t, 1) THEN 2
    ELSE IF ~IsDigit(At(t, k)) /\ Has(t, k + 1) /\ At(t, k + 1) = "." /\ AfterDot(t, k + 2)
         THEN 3
    ELSE 0
reDotSentenceSpaceRepl(t, k) ==
    IF k = 0 /\ At(t, 0) = "." /\ AfterDot(t, 1) THEN <<".", " ", At(t, 1)>>
    ELSE <<At(t, k), ".", " ", At(t, k + 2)>>

\* reOpenParenSpaces: \(\s+   reCloseParenSpaces: \s+\)
reOpenParenSpacesMatch(t, k) == SpaceAfterMatch(t, k, {"("})
reOpenParenSpacesRepl(t, k) == <<"(">>
reCloseParenSpacesMatch(t, k) == SpaceBeforeMatch(t, k, {")"})
reCloseParenSpacesRepl(t, k) == <<")">>

\* reMultiDots: [.]{3,}|(U+2026, the horizontal ellipsis)
reMultiDotsMatch(t, k) ==
    IF DotsEnd(t, k) - k >= 3 THEN DotsEnd(t, k) - k
    ELSE IF At(t, k) = "U+2026" THEN 1
    ELSE 0
reMultiDotsRepl(t, k) == <<".", ".", ".">>

\* reEllipsisNoLeftSp: ([^ \t\n\r(\["'])\.{3}
reEllipsisNoLeftSpMatch(t, k) ==
    IF /\ At(t, k) \notin {" ", "\t", "\n", "\r", "(", "[", "\"", "'"}
       /\ Stands(t, k + 1, <<".", ".", ".">>, FALSE)
    THEN 4 ELSE 0
reEllipsisNoLeftSpRepl(t, k) == <<At(t, k), " ", ".", ".", ".">>

\* reEllipsisNoRightSp: \.{3}([^ \t\n\r)\]"'(U+00BB).,;:!?])
reEllipsisNoRightSpMatch(t, k) ==
    IF /\ Stands(t, k, <<".", ".", ".">>, FALSE)
       /\ Has(t, k + 3)
       /\ At(t, k + 3) \notin {" ", "\t", "\n", "\r", ")", "]", "\"", "'", "U+00BB",
                               ".", ",", ";", ":", "!", "?"}
    THEN 4 ELSE 0
reEllipsisNoRightSpRepl(t, k) == <<".", ".", ".", " ", At(t, k + 3)>>

\* reSpaceBeforeCloseQuote: \s+(['"])   reSpaceAfterOpenQuote: (['"])\s+
reSpaceBeforeCloseQuoteMatch(t, k) == SpaceBeforeMatch(t, k, {"'", "\""})
reSpaceAfterOpenQuoteMatch(t, k) == SpaceAfterMatch(t, k, {"'", "\""})
reSpaceAfterOpenQuoteRepl(t, k) == <<At(t, k)>>

\* reDashTighten: \s*(U+2014, the em dash)\s*
reDashTightenMatch(t, k) ==
    LET e == ReSpaceEnd(t, k)
    IN  IF Has(t, e) /\ At(t, e) = "U+2014" THEN ReSpaceEnd(t, e + 1) - k ELSE 0
reDashTightenRepl(t, k) == <<"U+2014">>

\* reRealTimeGeneric: (?i)\bReal[ -]?Time\b
reRealTimeGenericMatch(t, k) ==
    IF ~(WordBoundary(t, k) /\ Stands(t, k, <<"r", "e", "a", "l">>, TRUE)) THEN 0
    ELSE IF /\ Has(t, k + 4) /\ At(t, k + 4) \in {" ", "-"}
            /\ Stands(t, k + 5, <<"t", "i", "m", "e">>, TRUE)
            /\ WordBoundary(t, k + 9)
         THEN 9
    ELSE IF Stands(t, k + 4, <<"t", "i", "m", "e">>, TRUE) /\ WordBoundary(t, k + 8)
         THEN 8
    ELSE 0
reRealTimeGenericRepl(t, k) == <<"r", "e", "a", "l", " ", "t", "i", "m", "e">>

\* reTransferRealTime: (?i)\bTransfer\s+real time\b
reTransferRealTimeMatch(t, k) ==
    LET e == ReSpaceEnd(t, k + 8)
    IN  IF /\ WordBoundary(t, k)
           /\ Stands(t, k, <<"t", "r", "a", "n", "s", "f", "e", "r">>, TRUE)
           /\ e > k + 8
           /\ Stands(t, e, <<"r", "e", "a", "l", " ", "t", "i", "m", "e">>, TRUE)
           /\ WordBoundary(t, e + 9)
        THEN e + 9 - k ELSE 0
reTransferRealTimeRepl(t, k) ==
    <<"t", "r", "a", "n", "s", "f", "e", "r", " ", "r", "e", "a", "l", " ", "t", "i", "m", "e">>

\* (?i)\brp at offset k
RpStands(t, k) == WordBoundary(t, k) /\ Stands(t, k, <<"r", "p">>, TRUE)

\* reRpNumber: (?i)\brp\.?\s+([0-9])
reRpNumberMatch(t, k) ==
    LET d == IF Has(t, k + 2) /\ At(t, k + 2) = "." THEN k + 3 ELSE k + 2
        e == ReSpaceEnd(t, d)
    IN  IF RpStands(t, k) /\ e > d /\ Has(t, e) /\ IsDigit(At(t, e)) THEN e + 1 - k ELSE 0
reRpNumberRepl(t, k) == <<"R", "p", At(t, k + reRpNumberMatch(t, k) - 1)>>

\* reRpNoSpace: (?i)\brp([0-9])
reRpNoSpaceMatch(t, k) ==
    IF RpStands(t, k) /\ Has(t, k + 2) /\ IsDigit(At(t, k + 2)) THEN 3 ELSE 0
reRpNoSpaceRepl(t, k) == <<"R", "p", At(t, k + 2)>>

\* \b lit \b, with case, for the expressions fixCommonPrepositions compiles
WordMatch(t, k, lit) ==
    IF WordBoundary(t, k) /\ Stands(t, k, lit, FALSE) /\ WordBoundary(t, k + Len(lit))
    THEN Len(lit) ELSE 0

(***************************************************************************)
(* The stages of SanitizeToPUEBI.                                          *)
(***************************************************************************)
normalizeSpaces(t) ==
    LET s1 == ReplaceAll(t, reMultiWSMatch, reMultiWSRepl)
    IN  ReplaceAll(s1, reSpaceBeforePunctMatch, SpaceBeforeRepl)

fixPunctuationSpacing(t) ==
    LET s1 == ReplaceAll(t, reSpaceBeforePunctMatch, SpaceBeforeRepl)
        s2 == ReplaceAll(s1, reMultiDotsMatch, reMultiDotsRepl)
        s3 == ReplaceAll(s2, reEllipsisNoLeftSpMatch, reEllipsisNoLeftSpRepl)
        s4 == ReplaceAll(s3, reEllipsisNoRightSpMatch, reEllipsisNoRightSpRepl)
        s5 == ReplaceAll(s4, reCommaSemiColonEtcSpaceMatch, reCommaSemiColonEtcSpaceRepl)
        s6 == ReplaceAll(s5, reDotSentenceSpaceMatch, reDotSentenceSpaceRepl)
        s7 == ReplaceAll(s6, reOpenParenSpacesMatch, reOpenParenSpacesRepl)
        s8 == ReplaceAll(s7, reCloseParenSpacesMatch, reCloseParenSpacesRepl)
        s9 == ReplaceAll(s8, reSpaceBeforeCloseQuoteMatch, SpaceBeforeRepl)
        s10 == ReplaceAll(s9, reSpaceAfterOpenQuoteMatch, reSpaceAfterOpenQuoteRepl)
        s11 == ReplaceAll(s10, reDashTightenMatch, reDashTightenRepl)
    IN  ReplaceAll(s11, reMultiWSMatch, reMultiWSRepl)

locatives ==
    << <<"l", "u", "a", "r">>, <<"d", "a", "l", "a", "m">>, <<"a", "t", "a", "s">>,
       <<"b", "a", "w", "a", "h">>, <<"d", "e", "p", "a", "n">>,
       <<"b", "e", "l", "a", "k", "a", "n", "g">>, <<"s", "a", "m", "p", "i", "n", "g">>,
       <<"a", "n", "t", "a", "r", "a">> >>

places ==
    << <<"r", "u", "m", "a", "h">>, <<"k", "a", "n", "t", "o", "r">>,
       <<"s", "e", "k", "o", "l", "a", "h">>, <<"p", "a", "s", "a", "r">>,
       <<"b", "a", "n", "k">>, <<"j", "a", "l", "a", "n">>,
       <<"m", "a", "s", "j", "i", "d">>, <<"g", "e", "r", "e", "j", "a">>,
       <<"k", "a", "m", "p", "u", "s">> >>

phrases ==
    << <<"t", "i", "a", "p">>, <<"s", "e", "t", "i", "a", "p">>, <<"m", "a", "n", "a">>,
       <<"s", "i", "n", "i">>, <<"s", "i", "t", "u">>, <<"s", "a", "n", "a">> >>

\* one ReplaceAllString of \b glued \b by apart
SplitWord(t, glued, apart) ==
    CHOOSE res \in
        { Rebuild(v, 0, [k \in 0..(Len(v) - 1) |-> WordMatch(v, k, glued)],
                        [k \in 0..(Len(v) - 1) |-> apart])
          : v \in {t} } : TRUE

\* "for _, w := range ws": di+w and, when withKe, ke+w are split, word after word
SplitBoth(t, w, withKe) ==
    LET s1 == SplitWord(t, <<"d", "i">> \o w, <<"d", "i", " ">> \o w)
    IN  IF withKe THEN SplitWord(s1, <<"k", "e">> \o w, <<"k", "e", " ">> \o w) ELSE s1

RECURSIVE SplitPrefixes(_, _, _, _)
SplitPrefixes(t, ws, n, withKe) ==
    IF n > Len(ws) THEN t
    ELSE CHOOSE res \in
             {SplitPrefixes(v, ws, n + 1, withKe) : v \in {SplitBoth(t, ws[n], withKe)}} : TRUE

\* \b[Kk]e pada\b and \b[Dd]ari pada\b
JoinMatch(t, k, first, rest) ==
    IF /\ WordBoundary(t, k)
       /\ At(t, k) \in first
       /\ Stands(t, k + 1, rest, FALSE)
       /\ WordBoundary(t, k + 1 + Len(rest))
    THEN 1 + Len(rest) ELSE 0

reKePadaMatch(t, k) == JoinMatch(t, k, {"K", "k"}, <<"e", " ", "p", "a", "d", "a">>)
reKePadaRepl(t, k) == <<"k", "e", "p", "a", "d", "a">>
reDariPadaMatch(t, k) ==
    JoinMatch(t, k, {"D", "d"}, <<"a", "r", "i", " ", "p", "a", "d", "a">>)
reDariPadaRepl(t, k) == <<"d", "a", "r", "i", "p", "a", "d", "a">>

fixCommonPrepositions(t) ==
    LET s1 == SplitPrefixes(t, locatives, 1, TRUE)
        s2 == SplitPrefixes(s1, places, 1, TRUE)
        s3 == ReplaceAll(s2, reKePadaMatch, reKePadaRepl)
        s4 == ReplaceAll(s3, reDariPadaMatch, reDariPadaRepl)
    IN  SplitPrefixes(s4, phrases, 1, FALSE)

normalizeRealTime(t) ==
    LET s1 == ReplaceAll(t, reRealTimeGenericMatch, reRealTimeGenericRepl)
    IN  ReplaceAll(s1, reTransferRealTimeMatch, reTransferRealTimeRepl)

\* titleWord: the first rune in upper case, the others in lower case
titleWord(w) ==
    [k \in 1..Len(w) |-> IF k = 1 THEN ToUpper(w[k]) ELSE ToLower(w[k])]

\* strings.Fields: the maximal runs of runes that are no white space
RECURSIVE FieldEnd(_, _)
FieldEnd(t, k) == IF Has(t, k) /\ ~IsSpace(At(t, k)) THEN FieldEnd(t, k + 1) ELSE k

RECURSIVE FieldsFrom(_, _)
FieldsFrom(t, k) ==
    LET b == SkipSpaces(t, k)
    IN  IF b >= Len(t) THEN <<>>
        ELSE <<Sub(t, b, FieldEnd(t, b))>> \o FieldsFrom(t, FieldEnd(t, b))

Fields(t) == FieldsFrom(t, 0)

\* strings.Join(tokens, " ")
RECURSIVE JoinSpace(_)
JoinSpace(tokens) ==
    IF tokens = <<>> THEN <<>>
    ELSE IF Len(tokens) = 1 THEN tokens[1]
    ELSE tokens[1] \o <<" ">> \o JoinSpace(Tail(tokens))

\* the class [^\n\r,.!?;:()] of the greeting expression
GreetingStop == {"\n", "\r", ",", ".", "!", "?", ";", ":", "(", ")"}

RECURSIVE NameRunEnd(_, _)
NameRunEnd(t, k) ==
    IF Has(t, k) /\ At(t, k) \notin GreetingStop THEN NameRunEnd(t, k + 1) ELSE k

\* where the group starts: \s+ is greedy and gives back white space until the
\* class matches one rune at least; lo is the least start, -1 when none works
RECURSIVE NameRunStart(_, _, _)
NameRunStart(t, p, lo) ==
    IF p < lo THEN -1
    ELSE IF Has(t, p) /\ At(t, p) \notin GreetingStop THEN p
    ELSE NameRunStart(t, p - 1, lo)

\* \bHai\b\s+([^\n\r,.!?;:()]+)
reGreetingMatch(t, k) ==
    LET e == ReSpaceEnd(t, k + 3)
        p == NameRunStart(t, e, k + 4)
    IN  IF /\ WordBoundary(t, k)
           /\ Stands(t, k, <<"H", "a", "i">>, FALSE)
           /\ WordBoundary(t, k + 3)
           /\ e > k + 3
           /\ p >= 0
        THEN NameRunEnd(t, p) - k ELSE 0

\* the offset of the first " " of t at or after k, or -1
RECURSIVE IndexSpace(_, _)
IndexSpace(t, k) ==
    IF k >= Len(t) THEN -1
    ELSE IF At(t, k) = " " THEN k
    ELSE IndexSpace(t, k + 1)

\* "if allLetter": letters, apostrophes and hyphens only
AllLetter(tok) == \A k \in 1..Len(tok) : IsLetter(tok[k]) \/ tok[k] = "'" \/ tok[k] = "-"

\* the length of the name run the greeting rule rewrites
NameLimit == 4

\* the function fixGreetingNameCase applies to each match
GreetingRewrite(match) ==
    LET sp == IndexSpace(match, 0)
        head == Sub(match, 0, sp)
        rest == Sub(match, sp + 1, Len(match))
        tokens == Fields(rest)
        limit == IF Len(tokens) > NameLimit THEN NameLimit ELSE Len(tokens)
        named == [n \in 1..Len(tokens) |->
                     IF n <= limit /\ AllLetter(tokens[n]) THEN titleWord(tokens[n])
                     ELSE tokens[n]]
    IN  IF sp < 0 THEN match
        ELSE IF Len(tokens) = 0 THEN match
        ELSE head \o <<" ">> \o JoinSpace(named)

reGreetingRepl(t, k) == GreetingRewrite(Sub(t, k, k + reGreetingMatch(t, k)))

fixGreetingNameCase(t) == ReplaceAll(t, reGreetingMatch, reGreetingRepl)

\* the offset of the first letter of r at or after start, or -1
RECURSIVE firstLetterIndex(_, _)
firstLetterIndex(r, start) ==
    IF start >= Len(r) THEN -1
    ELSE IF IsLetter(At(r, start)) THEN start
    ELSE firstLetterIndex(r, start + 1)

\* the offsets capitalizeSentences writes to: the first letter of the text and
\* the first letter after every terminal mark
CapitalizedOffsets(r) ==
    ({firstLetterIndex(r, 0)}
        \cup {firstLetterIndex(r, idx + 1) :
                idx \in {x \in 0..(Len(r) - 1) : At(r, x) \in {".", "!", "?"}}})
    \ {-1}

capitalizeSentences(t) ==
    LET offs == CapitalizedOffsets(t)
    IN  [k \in 1..Len(t) |-> IF (k - 1) \in offs THEN ToUpper(t[k]) ELSE t[k]]

\* fixIDRCurrency without its second statement
fixIDRCurrencySpacedOnly(t) == ReplaceAll(t, reRpNumberMatch, reRpNumberRepl)

fixIDRCurrency(t) ==
    LET s1 == ReplaceAll(t, reRpNumberMatch, reRpNumberRepl)
    IN  ReplaceAll(s1, reRpNoSpaceMatch, reRpNoSpaceRepl)

\* strings.TrimSpace
RECURSIVE TrimLeft(_)
TrimLeft(t) == IF t # <<>> /\ IsSpace(Head(t)) THEN TrimLeft(Tail(t)) ELSE t

RECURSIVE TrimRight(_)
TrimRight(t) ==
    IF t # <<>> /\ IsSpace(t[Len(t)]) THEN TrimRight(SubSeq(t, 1, Len(t) - 1)) ELSE t

TrimSpace(t) == TrimRight(TrimLeft(t))

\* the guard of SanitizeToPUEBI testing for the empty string only
IsEmpty(t) == t = <<>>

\* "if strings.TrimSpace(s) == """: the guard of SanitizeToPUEBI
IsBlank(t) == TrimSpace(t) = <<>>

SanitizeToPUEBI(t) ==
    IF IsBlank(t) THEN t
    ELSE LET s1 == normalizeSpaces(t)
             s2 == fixPunctuationSpacing(s1)
             s3 == fixCommonPrepositions(s2)
             s4 == normalizeRealTime(s3)
             s5 == capitalizeSentences(s4)
             s6 == fixGreetingNameCase(s5)
             s7 == decapitalizeMidSentence(s6)
             s8 == fixIDRCurrency(s7)
         IN  TrimSpace(s8)

\* IsSentenceCapitalized answering false for a text without a letter
IsSentenceCapitalizedStrict(t) ==
    LET runes == TrimSpace(t)
        k == firstLetterIndex(runes, 0)
    IN  IF runes = <<>> THEN TRUE
        ELSE IF k >= 0 THEN IsUpper(At(runes, k))
        ELSE FALSE

IsSentenceCapitalized(t) ==
    LET runes == TrimSpace(t)
        k == firstLetterIndex(runes, 0)
    IN  IF runes = <<>> THEN TRUE
        ELSE IF k >= 0 THEN IsUpper(At(runes, k))
        ELSE TRUE

(***************************************************************************)
(* Inputs.  A text is built from at most a bounded number of items, each a *)
(* separator followed by a (possibly empty) word.                          *)
(***************************************************************************)
RECURSIVE Texts(_, _)
Texts(items, n) ==
    IF n = 0 THEN {<<>>}
    ELSE LET shorter == Texts(items, n - 1)
         IN  shorter \cup {p \o it : p \in shorter, it \in items}

MaxEngineItems == 3

EngineWords ==
    { <<>>,
      <<"k", "e">>,
      <<"B", "u", "d", "i">>,
      <<"B", "a", "n", "k">>,
      <<"P", "T">>,
      <<"C", "a", "l", "l">>,
      <<"A">>,
      <<"x", "Y">>,
      <<"U+03D2", "a">> }

EngineSeps == { <<" ">>, <<".">> }

EngineInputs ==
    Texts({sep \o w : sep \in EngineSeps, w \in EngineWords}, MaxEngineItems)

(***************************************************************************)
(* decapitalizeMidSentence as a process: one step per sentence.            *)
(***************************************************************************)
EngineInit ==
    /\ op = "decapitalizeMidSentence"
    /\ in \in EngineInputs
    /\ s = in
    /\ pc = "decap"
    /\ i = 0
    /\ out = <<>>
    /\ ok = TRUE
    /\ capped = <<>>
    /\ again = FALSE

DecapSentence ==
    /\ pc = "decap"
    /\ i < Len(s)
    /\ LET it == SentenceIter(s, i)
       IN  /\ out' = out \o it.app
           /\ i' = it.next
    /\ UNCHANGED <<op, in, s, pc, ok, capped, again>>

DecapReturn ==
    /\ pc = "decap"
    /\ ~(i < Len(s))
    /\ s' = out
    /\ pc' = IF op = "SanitizeToPUEBI" THEN "fixIDRCurrency" ELSE "done"
    /\ UNCHANGED <<op, in, i, out, ok, capped, again>>

EngineNext == DecapSentence \/ DecapReturn

SpecEngine == EngineInit /\ [][EngineNext]_vars

(***************************************************************************)
(* SanitizeToPUEBI as a process: one step per statement of its body, and   *)
(* a caller that passes the result back once.                              *)
(***************************************************************************)
MaxSanitizeItems == 3

\* texts around a greeting: the greeting word, a name in lower case, an
\* exception word in capitals
GreetingWords ==
    { <<>>,
      <<"H", "a", "i">>,
      <<"a", "d", "i">>,
      <<"A", "T", "M">> }

\* texts around an amount: the rupiah marker without and with its period, a
\* digit, a word in lower case
AmountWords ==
    { <<>>,
      <<"r", "p">>,
      <<"r", "p", ".">>,
      <<"5">>,
      <<"a", "d", "i">> }

SanitizeSeps == { <<" ">>, <<".">> }

SanitizeInputs ==
    Texts({sep \o w : sep \in SanitizeSeps, w \in GreetingWords}, MaxSanitizeItems)
        \cup Texts({sep \o w : sep \in SanitizeSeps, w \in AmountWords}, MaxSanitizeItems)

SanitizeInit ==
    /\ op = "SanitizeToPUEBI"
    /\ in \in SanitizeInputs
    /\ s = in
    /\ pc = "start"
    /\ i = 0
    /\ out = <<>>
    /\ ok = TRUE
    /\ capped = <<>>
    /\ again = FALSE

\* a statement "s = f(s)" of the body
Stage(at, result, to) ==
    /\ op = "SanitizeToPUEBI"
    /\ pc = at
    /\ s' = result
    /\ pc' = to

ReturnBlank ==
    /\ op = "SanitizeToPUEBI"
    /\ pc = "start"
    /\ IsBlank(s)
    /\ pc' = "done"
    /\ UNCHANGED <<op, in, s, i, out, ok, capped, again>>

Enter ==
    /\ op = "SanitizeToPUEBI"
    /\ pc = "start"
    /\ ~IsBlank(s)
    /\ pc' = "normalizeSpaces"
    /\ UNCHANGED <<op, in, s, i, out, ok, capped, again>>

NormalizeSpaces ==
    /\ Stage("normalizeSpaces", normalizeSpaces(s), "fixPunctuationSpacing")
    /\ UNCHANGED <<op, in, i, out, ok, capped, again>>

FixPunctuationSpacing ==
    /\ Stage("fixPunctuationSpacing", fixPunctuationSpacing(s), "fixCommonPrepositions")
    /\ UNCHANGED <<op, in, i, out, ok, capped, again>>

FixCommonPrepositions ==
    /\ Stage("fixCommonPrepositions", fixCommonPrepositions(s), "normalizeRealTime")
    /\ UNCHANGED <<op, in, i, out, ok, capped, again>>

NormalizeRealTime ==
    /\ Stage("normalizeRealTime", normalizeRealTime(s), "capitalizeSentences")
    /\ UNCHANGED <<op, in, i, out, ok, capped, again>>

CapitalizeSentences ==
    /\ Stage("capitalizeSentences", capitalizeSentences(s), "fixGreetingNameCase")
    /\ capped' = s'
    /\ UNCHANGED <<op, in, i, out, ok, again>>

FixGreetingNameCase ==
    /\ Stage("fixGreetingNameCase", fixGreetingNameCase(s), "decap")
    /\ i' = 0
    /\ out' = <<>>
    /\ UNCHANGED <<op, in, ok, capped, again>>

FixIDRCurrency ==
    /\ Stage("fixIDRCurrency", fixIDRCurrency(s), "trim")
    /\ UNCHANGED <<op, in, i, out, ok, capped, again>>

Trim ==
    /\ Stage("trim", TrimSpace(s), "done")
    /\ UNCHANGED <<op, in, i, out, ok, capped, again>>

\* the caller calls SanitizeToPUEBI on the text it returned
Again ==
    /\ op = "SanitizeToPUEBI"
    /\ pc = "done"
    /\ ~again
    /\ again' = TRUE
    /\ in' = s
    /\ pc' = "start"
    /\ capped' = <<>>
    /\ i' = 0
    /\ out' = <<>>
    /\ UNCHANGED <<op, s, ok>>

SanitizeNext ==
    \/ ReturnBlank
    \/ Enter
    \/ NormalizeSpaces
    \/ FixPunctuationSpacing
    \/ FixCommonPrepositions
    \/ NormalizeRealTime
    \/ CapitalizeSentences
    \/ FixGreetingNameCase
    \/ DecapSentence
    \/ DecapReturn
    \/ FixIDRCurrency
    \/ Trim
    \/ Again

SpecSanitize == SanitizeInit /\ [][SanitizeNext]_vars

SanitizeDone == op = "SanitizeToPUEBI" /\ pc = "done"

\* C1: a second run of SanitizeToPUEBI, on the text the first run returned,
\* returns that text.
C1_Idempotent == (SanitizeDone /\ again) => s = in

(***************************************************************************)
(* The sentences and words of an engine input, for stating properties.     *)
(***************************************************************************)
RECURSIVE SentenceSpans(_, _)
SentenceSpans(rs, i0) ==
    IF i0 < Len(rs)
    THEN LET j == SentenceEnd(rs, i0)
         IN  <<[start |-> i0, end |-> j]>> \o SentenceSpans(rs, AfterSentence(rs, j))
    ELSE <<>>

\* the words of text rs as records: sentence number, word index in the
\* sentence, absolute span, and the text of the preceding word of the sentence
WordsOfSentence(rs, sp, sn) ==
    LET kal == Sub(rs, sp.start, sp.end)
        ws == words(kal)
    IN  { [sn |-> sn, wi |-> wi,
           start |-> sp.start + ws[wi + 1].start,
           end |-> sp.start + ws[wi + 1].end,
           text |-> WordAt(kal, ws, wi),
           prev |-> IF wi = 0 THEN <<>> ELSE WordAt(kal, ws, wi - 1)]
          : wi \in 0..(Len(ws) - 1) }

AllWords(rs) ==
    LET sps == SentenceSpans(rs, 0)
    IN  UNION {WordsOfSentence(rs, sps[n], n) : n \in 1..Len(sps)}

EngineDone == op = "decapitalizeMidSentence" /\ pc = "done"

\* C4: the first word (word index 0) of every sentence the engine segments is
\* the same in the output as in the input.
C4_IndexZeroKept ==
    EngineDone =>
        /\ Len(s) = Len(in)
        /\ \A w \in AllWords(in) : w.wi = 0 => Sub(s, w.start, w.end) = w.text

\* C4 witness: a sentence begins with a TitleCase word that is no exception,
\* and the engine has rewritten a later word of the same text.
C4_Witness ==
    /\ EngineDone
    /\ s # in
    /\ \E w \in AllWords(in) :
          /\ w.wi = 0
          /\ isTitleCase(w.text) /\ ~isAllCaps(w.text)
          /\ w.text \notin defaultExceptions
          /\ w.sn > 1
          /\ Sub(s, w.start, w.end) = w.text

\* C2: a TitleCase word that directly follows a protected head in the engine's
\* input, the head at any word index of its sentence, is returned unchanged.
C2_HeadProtectsSuccessor ==
    EngineDone =>
        \A w \in AllWords(in) :
            (w.wi > 0 /\ w.prev \in protectedHeads /\ isTitleCase(w.text))
                => Sub(s, w.start, w.end) = w.text

\* C7: a word of the engine's input at word index > 0 whose letters are all
\* uppercase is the same in the output.
C7_AllCapsKept ==
    EngineDone =>
        \A w \in AllWords(in) :
            (w.wi > 0 /\ isAllCaps(w.text)) => Sub(s, w.start, w.end) = w.text

\* C7 witness: an all-uppercase word that is no exception and follows no
\* protected head is kept, in a text where the engine has lowered another word.
C7_Witness ==
    /\ EngineDone
    /\ s # in
    /\ \E w \in AllWords(in) :
          /\ w.wi > 0
          /\ isAllCaps(w.text)
          /\ w.text \notin defaultExceptions
          /\ w.prev \notin protectedHeads
          /\ Sub(s, w.start, w.end) = w.text

(***************************************************************************)
(* Letters of a text, for following a letter through the stages: no stage  *)
(* adds, removes or reorders letters.                                      *)
(***************************************************************************)
Letters(t) == SelectSeq(t, IsLetter)

\* how many letters stand before offset k
LettersBefore(t, k) == Len(Letters(Sub(t, 0, k)))

BlankText(t) == \A k \in 1..Len(t) : t[k] \in UniSpace

\* C3: in the text SanitizeToPUEBI returns, the (at most four) letter-only
\* tokens that follow the greeting word "Hai" each begin with a capital.
C3_GreetingNamesCapitalized ==
    SanitizeDone =>
        \A k \in 0..(Len(s) - 1) :
            reGreetingMatch(s, k) > 0 =>
                LET match == Sub(s, k, k + reGreetingMatch(s, k))
                    tokens == Fields(Sub(match, 3, Len(match)))
                IN  \A n \in 1..Len(tokens) :
                        (n <= NameLimit /\ \A c \in 1..Len(tokens[n]) : IsLetter(tokens[n][c]))
                            => IsUpper(tokens[n][1])

\* C5: from capitalizeSentences on, every letter it has written (the first
\* letter of the text and the first letter after each terminal mark) is in
\* upper case in s, and in the engine's input it begins word 0 of a sentence.
C5_SentenceCapitalKept ==
    (op = "SanitizeToPUEBI" /\ capped # <<>>) =>
        /\ LowerAll(Letters(s)) = LowerAll(Letters(capped))
        /\ \A o \in CapitalizedOffsets(capped) :
              /\ IsUpper(Letters(s)[LettersBefore(capped, o) + 1])
              /\ pc = "decap" =>
                    \E w \in AllWords(s) :
                        w.wi = 0 /\ LettersBefore(s, w.start) = LettersBefore(capped, o)

\* C5 witness: a letter in lower case in the argument was capitalized after a
\* terminal mark, later stages have changed the case of other letters, and the
\* call has returned.
C5_Witness ==
    /\ SanitizeDone
    /\ capped # <<>>
    /\ Letters(s) # Letters(capped)
    /\ \E o \in CapitalizedOffsets(capped) :
          /\ \E x \in 0..(o - 1) : isSentenceEnd(At(capped, x))
          /\ IsLower(Letters(in)[LettersBefore(capped, o) + 1])
          /\ IsUpper(Letters(s)[LettersBefore(capped, o) + 1])

\* C6: a word of the argument that is in the exception set has the same
\* letters, in the same case, in the text SanitizeToPUEBI returns.
C6_ExceptionKept ==
    SanitizeDone =>
        \A w \in AllWords(in) :
            w.text \in defaultExceptions =>
                /\ Len(Letters(s)) = Len(Letters(in))
                /\ SubSeq(Letters(s), LettersBefore(in, w.start) + 1,
                          LettersBefore(in, w.end)) = w.text

\* C8: for an argument that is empty or all white space no stage runs and the
\* argument is returned as it is.
C8_BlankReturned ==
    (op = "SanitizeToPUEBI" /\ BlankText(in)) => (s = in /\ pc \in {"start", "done"})

\* C8 witness: an argument of two white-space characters or more was returned.
C8_Witness ==
    SanitizeDone /\ BlankText(in) /\ Len(in) >= 2 /\ s = in

(***************************************************************************)
(* fixIDRCurrency called on its own.                                       *)
(***************************************************************************)
MaxCurrencyPieces == 4

CurrencyPieces ==
    { <<"r", "p">>, <<"R", "P">>, <<".">>, <<" ">>, <<"5">>, <<"a">> }

CurrencyInputs == Texts(CurrencyPieces, MaxCurrencyPieces)

CurrencyInit ==
    /\ op = "fixIDRCurrency"
    /\ in \in CurrencyInputs
    /\ s = in
    /\ pc = "fixIDRCurrency"
    /\ i = 0
    /\ out = <<>>
    /\ ok = TRUE
    /\ capped = <<>>
    /\ again = FALSE

CurrencyCall ==
    /\ op = "fixIDRCurrency"
    /\ pc = "fixIDRCurrency"
    /\ s' = fixIDRCurrency(s)
    /\ pc' = "done"
    /\ UNCHANGED <<op, in, i, out, ok, capped, again>>

SpecCurrency == CurrencyInit /\ [][CurrencyCall]_vars

CurrencyDone == op = "fixIDRCurrency" /\ pc = "done"

\* a text without its periods and white space, in lower case
Squeezed(t) == LowerAll(SelectSeq(t, LAMBDA c : c # "." /\ ~IsReSpace(c)))

\* a rupiah marker in any case at a word boundary at offset k, an optional
\* period, white space, then a digit
SpacedAmountAt(t, k) ==
    /\ WordBoundary(t, k)
    /\ k + 2 <= Len(t)
    /\ ToLower(At(t, k)) = "r" /\ ToLower(At(t, k + 1)) = "p"
    /\ \E d \in {k + 2, k + 3} :
          /\ d = k + 3 => (Has(t, k + 2) /\ At(t, k + 2) = ".")
          /\ \E e \in (d + 1)..(Len(t) - 1) :
                /\ \A x \in d..(e - 1) : IsReSpace(At(t, x))
                /\ IsDigit(At(t, e))

\* C9: the text fixIDRCurrency returns has no marker at a word boundary that
\* white space (after an optional period) separates from a digit; every marker
\* at a word boundary that a digit follows directly is spelled "Rp"; apart from
\* periods, white space and letter case the text is the argument; and an
\* argument without such a marker is returned as it is.
C9_CurrencyCanonical ==
    CurrencyDone =>
        /\ \A k \in 0..(Len(s) - 1) : ~SpacedAmountAt(s, k)
        /\ \A k \in 0..(Len(s) - 3) :
              (/\ WordBoundary(s, k)
               /\ ToLower(At(s, k)) = "r" /\ ToLower(At(s, k + 1)) = "p"
               /\ IsDigit(At(s, k + 2)))
                  => (At(s, k) = "R" /\ At(s, k + 1) = "p")
        /\ Squeezed(s) = Squeezed(in)
        /\ (\A k \in 0..(Len(in) - 1) :
                ~SpacedAmountAt(in, k) /\ reRpNoSpaceMatch(in, k) = 0) => s = in

\* C9 witness: the argument had a marker in capitals followed by a period,
\* white space and a digit.
C9_Witness ==
    /\ CurrencyDone
    /\ \E k \in 0..(Len(in) - 1) :
          SpacedAmountAt(in, k) /\ At(in, k) = "R" /\ At(in, k + 1) = "P"
              /\ Has(in, k + 2) /\ At(in, k + 2) = "."
    /\ s # in

(***************************************************************************)
(* IsSentenceCapitalized.                                                  *)
(***************************************************************************)
MaxCapPieces == 4

CapPieces == { <<" ">>, <<"a">>, <<"A">>, <<"5">>, <<".">> }

CapInputs == Texts(CapPieces, MaxCapPieces)

CapInit ==
    /\ op = "IsSentenceCapitalized"
    /\ in \in CapInputs
    /\ s = in
    /\ pc = "call"
    /\ i = 0
    /\ out = <<>>
    /\ ok = FALSE
    /\ capped = <<>>
    /\ again = FALSE

CapCall ==
    /\ op = "IsSentenceCapitalized"
    /\ pc = "call"
    /\ ok' = IsSentenceCapitalized(in)
    /\ pc' = "done"
    /\ UNCHANGED <<op, in, s, i, out, capped, again>>

SpecIsCap == CapInit /\ [][CapCall]_vars

CapDone == op = "IsSentenceCapitalized" /\ pc = "done"

HasLetter(t) == \E k \in 1..Len(t) : IsLetter(t[k])

\* is the first letter of t (t has one) in upper case
FirstLetterUpper(t) ==
    \E k \in 1..Len(t) :
        IsUpper(t[k]) /\ \A x \in 1..(k - 1) : ~IsLetter(t[x])

\* C10 as stated: the result is true for an empty or all-white-space text and
\* otherwise true exactly when the first letter of the text is in upper case
\* (so false for a text that has no letter).
C10_TrueIffFirstLetterUpper ==
    CapDone => (ok <=> (BlankText(in) \/ FirstLetterUpper(in)))

\* C10 amended: the result is true for an empty or all-white-space text and for
\* a text without a letter; otherwise it is true exactly when the first letter
\* of the text is in upper case.
C10_TrueUnlessFirstLetterLower ==
    CapDone => (ok <=> (BlankText(in) \/ ~HasLetter(in) \/ FirstLetterUpper(in)))

\* C10 witness: a text that is not blank and has no letter was answered true.
C10_Witness ==
    CapDone /\ ~BlankText(in) /\ ~HasLetter(in) /\ ok

(***************************************************************************)
(* The rewrite rule of the engine.                                         *)
(***************************************************************************)
\* a word of the engine's input that no rule of the loop over wi skips
Unprotected(w) ==
    /\ w.wi > 0
    /\ isTitleCase(w.text)
    /\ ~isAllCaps(w.text)
    /\ w.text \notin defaultExceptions
    /\ w.prev \notin protectedHeads

\* C11 as stated: a word at word index > 0 that is TitleCase, not AllCaps, no
\* exception and does not follow a protected head has only lowercase letters
\* in the output.
C11_UnprotectedAllLowercase ==
    EngineDone =>
        \A w \in AllWords(in) :
            Unprotected(w) =>
                \A t \in (w.start + 1)..w.end : IsLower(s[t])

\* C11 amended: such a word is in the output with unicode.ToLower applied to
\* each of its letters: every letter after the first is lowercase, and so is
\* the first unless unicode.ToLower has no mapping for it.
C11_UnprotectedLowered ==
    EngineDone =>
        \A w \in AllWords(in) :
            Unprotected(w) =>
                /\ Sub(s, w.start, w.end) = LowerAll(w.text)
                /\ \A t \in (w.start + 2)..w.end : IsLower(s[t])
                /\ IsLower(s[w.start + 1]) \/ ToLower(w.text[1]) = w.text[1]

\* C11 witness: a word that no rule skips was rewritten, and it follows a word
\* that is TitleCase itself.
C11_Witness ==
    /\ EngineDone
    /\ \E w \in AllWords(in) :
          /\ Unprotected(w)
          /\ isTitleCase(w.prev)
          /\ Sub(s, w.start, w.end) # w.text
          /\ \A t \in (w.start + 1)..w.end : IsLower(s[t])

\* a word of one uppercase letter at word index > 0 that is no exception and
\* does not follow a protected head
SingleCapital(w) ==
    /\ w.wi > 0
    /\ Len(w.text) = 1
    /\ IsUpper(w.text[1])
    /\ w.text \notin defaultExceptions
    /\ w.prev \notin protectedHeads

\* C12 as stated: a word of exactly one uppercase letter at word index > 0,
\* no exception and not after a protected head, is TitleCase and is in lower
\* case in the output.
C12_SingleCapitalLowered ==
    EngineDone =>
        \A w \in AllWords(in) :
            SingleCapital(w) => (isTitleCase(w.text) /\ IsLower(s[w.start + 1]))

\* C12 amended: such a word is TitleCase and AllCaps at once; the AllCaps test
\* comes first, so the word is the same in the output.
C12_SingleCapitalKept ==
    EngineDone =>
        \A w \in AllWords(in) :
            SingleCapital(w) =>
                /\ isTitleCase(w.text)
                /\ isAllCaps(w.text)
                /\ s[w.start + 1] = w.text[1]

\* C12 witness: a one-letter uppercase word was kept although the word before
\* it is no protected head, in a text whose last word the engine has lowered.
C12_Witness ==
    /\ EngineDone
    /\ \E w, v \in AllWords(in) :
          /\ SingleCapital(w)
          /\ s[w.start + 1] = w.text[1]
          /\ v.sn = w.sn /\ v.wi = w.wi + 1
          /\ Sub(s, v.start, v.end) # v.text

\* C13: when a word is a protected head and the next word of the sentence is
\* not, a TitleCase word that comes second after the head, not AllCaps and no
\* exception, is lowered.
C13_NotTransitive ==
    EngineDone =>
        \A h, v, w \in AllWords(in) :
            (/\ h.sn = v.sn /\ v.sn = w.sn
             /\ v.wi = h.wi + 1 /\ w.wi = v.wi + 1
             /\ h.text \in protectedHeads
             /\ v.text \notin protectedHeads
             /\ isTitleCase(w.text) /\ ~isAllCaps(w.text)
             /\ w.text \notin defaultExceptions)
                => Sub(s, w.start, w.end) = LowerAll(w.text)

\* C13 witness: a head begins a sentence, the TitleCase word after it was
\* kept and the TitleCase word after that one was rewritten.
C13_Witness ==
    /\ EngineDone
    /\ \E h, v, w \in AllWords(in) :
          /\ h.sn = v.sn /\ v.sn = w.sn
          /\ h.wi = 0 /\ v.wi = 1 /\ w.wi = 2
          /\ h.text \in protectedHeads
          /\ isTitleCase(v.text) /\ ~isAllCaps(v.text)
          /\ v.text \notin protectedHeads \cup defaultExceptions
          /\ Sub(s, v.start, v.end) = v.text
          /\ isTitleCase(w.text) /\ ~isAllCaps(w.text)
          /\ Sub(s, w.start, w.end) # w.text

(***************************************************************************)
(* The frame of the engine.                                                *)
(***************************************************************************)
\* offset t (1-based) lies in a word of the input at word index > 0 that is
\* TitleCase and not AllCaps
InRewritableWord(t) ==
    \E w \in AllWords(in) :
        /\ w.wi > 0
        /\ isTitleCase(w.text) /\ ~isAllCaps(w.text)
        /\ w.start < t /\ t <= w.end

\* C14: the output of the engine is as long as the input, and an offset where
\* the two differ lies in a TitleCase word of word index > 0 and holds the
\* lowercase form of the input's letter.
C14_EngineFrame ==
    EngineDone =>
        /\ Len(s) = Len(in)
        /\ \A t \in 1..Len(in) :
              s[t] # in[t] => (InRewritableWord(t) /\ s[t] = ToLower(in[t]))

\* C14 witness: the input has a terminal mark followed by white space and a
\* TitleCase word that was kept, and another word was rewritten.
C14_Witness ==
    /\ EngineDone
    /\ s # in
    /\ \E t \in 1..(Len(in) - 1) : isSentenceEnd(in[t]) /\ IsSpace(in[t + 1])
    /\ \E w \in AllWords(in) :
          isTitleCase(w.text) /\ ~isAllCaps(w.text) /\ Sub(s, w.start, w.end) = w.text

(***************************************************************************)
(* fixGreetingNameCase called on its own.                                  *)
(***************************************************************************)
MaxGreetingPieces == 5

GreetingPieces ==
    { <<"H", "a", "i">>, <<" ">>, <<"a", "d", "i">>, <<"(">>, <<"5">> }

GreetingInputs == Texts(GreetingPieces, MaxGreetingPieces)

GreetingInit ==
    /\ op = "fixGreetingNameCase"
    /\ in \in GreetingInputs
    /\ s = in
    /\ pc = "fixGreetingNameCase"
    /\ i = 0
    /\ out = <<>>
    /\ ok = TRUE
    /\ capped = <<>>
    /\ again = FALSE

GreetingCall ==
    /\ op = "fixGreetingNameCase"
    /\ pc = "fixGreetingNameCase"
    /\ s' = fixGreetingNameCase(s)
    /\ pc' = "done"
    /\ UNCHANGED <<op, in, i, out, ok, capped, again>>

SpecGreeting == GreetingInit /\ [][GreetingCall]_vars

GreetingDone == op = "fixGreetingNameCase" /\ pc = "done"

\* C15: the text fixGreetingNameCase returns is as long as its argument, and
\* an offset where the two differ holds a letter of the argument in its other
\* case: white space, punctuation and digits stay where they were.
C15_GreetingFrame ==
    GreetingDone =>
        /\ Len(s) = Len(in)
        /\ \A t \in 1..Len(in) :
              s[t] # in[t] => (IsLetter(in[t]) /\ ToLower(s[t]) = ToLower(in[t]))

(***************************************************************************)
(* Termination of the engine.  The loop is sequential code that runs until *)
(* its condition fails: a step that can be taken is taken.                 *)
(***************************************************************************)
MaxLiveItems == 4

LiveWords == { <<>>, <<"k", "e">>, <<"B", "a", "n", "k">>, <<"5">> }

LiveInputs ==
    Texts({sep \o w : sep \in EngineSeps, w \in LiveWords}, MaxLiveItems)

\* before the call: no argument yet
CallerInit ==
    /\ op = "decapitalizeMidSentence"
    /\ in = <<>>
    /\ s = <<>>
    /\ pc = "call"
    /\ i = 0
    /\ out = <<>>
    /\ ok = TRUE
    /\ capped = <<>>
    /\ again = FALSE

\* the call: rs := []rune(s), and the loop is entered with i = 0 and no out
EngineCall ==
    /\ op = "decapitalizeMidSentence"
    /\ pc = "call"
    /\ in' \in LiveInputs
    /\ s' = in'
    /\ pc' = "decap"
    /\ UNCHANGED <<op, i, out, ok, capped, again>>

EngineLiveNext == EngineCall \/ DecapSentence \/ DecapReturn

SpecEngineLive == CallerInit /\ [][EngineLiveNext]_vars /\ WF_vars(EngineLiveNext)

\* one pass of the tokenizer loop "for k < len(kal)" over the sentence at
\* scan position i leaves k greater, from whatever k it starts
TokenizerAdvances ==
    LET kal == Sub(s, i, SentenceEnd(s, i))
    IN  \A k \in 0..(Len(kal) - 1) : SkipLetters(kal, SkipNonLetters(kal, k)) > k

\* C16: every iteration of the outer loop leaves the scan position i greater
\* and the scan position k of its tokenizer grows with every pass; the engine
\* returns, then with i at the length of its input, and for the empty input
\* without an iteration and with the empty output.
C16_EngineTerminates ==
    /\ [][(pc = "decap" /\ pc' = "decap") => (i < i' /\ i' <= Len(in))]_vars
    /\ []((pc = "decap" /\ i < Len(s)) => TokenizerAdvances)
    /\ []((pc = "decap" /\ in = <<>>) => (i = 0 /\ out = <<>>))
    /\ <>(EngineDone /\ i = Len(in) /\ Len(s) = Len(in))

\* C16 witness: the engine has returned for an input that begins with a
\* terminal mark, has two terminal marks in a row and ends without one.
C16_Witness ==
    /\ EngineDone
    /\ i = Len(in)
    /\ Len(in) >= 3
    /\ isSentenceEnd(in[1])
    /\ \E t \in 1..(Len(in) - 1) : isSentenceEnd(in[t]) /\ isSentenceEnd(in[t + 1])
    /\ ~isSentenceEnd(in[Len(in)]) /\ ~IsSpace(in[Len(in)])

====
